---- MODULE Spec2Model ----
(***************************************************************************)
(* A model of examples/sparse_cnn.ipynb: the RandomNoise image transform,  *)
(* the train() and test() loops and the notebook's script (first epoch,    *)
(* training epochs with the boost strength update, evaluation).            *)
(*                                                                         *)
(* Three specifications are given.  SpecNoise runs the RandomNoise         *)
(* transform in two processes started from the same seed and given the     *)
(* same calls.  Spec runs the notebook's script, with train() and test()   *)
(* as step machines.  SpecCalls calls train() and test() in any order, on  *)
(* any loader and with or without a callback.                              *)
(***************************************************************************)
EXTENDS Integers, Sequences, FiniteSets, TLC

(***************************************************************************)
(* Bounds of the model.                                                    *)
(***************************************************************************)
\* The largest number of pixels of an image tensor.
MaxPixels == 2
\* Noise levels are the fractions n / LevelDen, n in 0 .. LevelDen + 1.
LevelDen == 2
\* The period of the abstracted NumPy generator.
RngPeriod == 4
\* The number of weight positions of the model.
NumParams == 2
\* The number of samples of the training dataset, and the batch sizes of the
\* first-epoch loader and of the training loader.
TrainSize == 3
FirstBatchSize == 1
TrainBatchSize == 2
\* The number of samples of the test dataset and the batch size of its loaders.
TestSize == 3
TestBatchSize == 2

\* EPOCHS of the notebook.
EPOCHS == 10
\* NOISE_LEVELS of the notebook, in percent.
NOISE_LEVELS == <<5, 10, 15, 20, 25>>

\* Pixel intensities.  The code only stores and (in the claims) compares them.
PixelValues == {"black", "white"}
\* The tensors of a process, by identity.
Ids == {1, 2}
\* The two processes that run the same calls from the same seed.
Runs == {1, 2}
\* The noise levels a transform can be constructed with: n stands for the
\* fraction n / LevelDen.  LevelDen + 1 is a level above 1, which the
\* constructor does not refuse.
Levels == 0 .. (LevelDen + 1)
\* The seeds np.random.seed can be given.
Seeds == 0 .. (RngPeriod - 1)

\* The weight positions of the model, and the positions the sparse layers'
\* masks zeroed at construction.
Params == 1 .. NumParams
ZeroMask == {p \in Params : p % 2 = 1}
\* Weight values: zero and a value that is not zero.
WeightValues == {0, 1}
\* Class labels, and the label of each sample of a dataset.
Classes == {0, 1}
target(sample) == sample % 2
\* The loss of one sample.
Losses == {0, 1}
\* The output of the model for one sample: the class of its largest entry and
\* the negative log-likelihood it gives the sample's label.
Outputs == [pred : Classes, nll : Losses]
\* No value (Python's None).
None == "None"

VARIABLES
    \* ---- RandomNoise ----
    noise_level,   \* self.noise_level: the numerator n of n / LevelDen
    white_value,   \* self.white_value
    heap,          \* heap[r][id]: the storage of tensor id in process r,
                   \* a function from 0 .. N-1 to pixel values
    rng,           \* rng[r]: the state of the global NumPy generator of process r
    noise,         \* noise[r]: the local `noise` of the last __call__ (a sequence
                   \* of positions)
    arg,           \* the identity of the image given to the last __call__ of the
                   \* transform, 0 when the transform has had no call yet
    ret,           \* ret[r]: the identity of the tensor the last __call__ returned
    before,        \* before[r]: heap[r] as it was when the last __call__ began
    rng_before,    \* rng_before[r]: rng[r] as it was when the last __call__ began
    \* ---- the model and the optimizer ----
    training,      \* model.training: TRUE in training mode, FALSE in evaluation mode
    grad_enabled,  \* torch's gradient tracking, switched off inside torch.no_grad()
    weights,       \* weights[p]: the value at weight position p
    grad,          \* how many backward passes the parameters' .grad has
                   \* accumulated since it was last cleared
    boost_updates, \* how often update_boost_strength was applied to the model
    rezeroed,      \* the positions the callback of the current batch reset from
                   \* a non-zero value to zero
    opt_state,     \* the state the optimizer keeps between steps (SGD's
                   \* momentum buffers): "empty" until the first step creates
                   \* them, "buffers" from then on
    \* ---- the running call of train() or test() ----
    fn,            \* "train", "test", or "none" when neither is running
    step,          \* the statement the running call is at
    loader,        \* its loader: [size, batch_size, noise]
    callback,      \* post_batch_callback of train(): None or "post_batch"
    batch_idx,     \* the index of the batch of the current iteration, from 0
    output,        \* output: the model's output for each sample of the batch
    loss,          \* loss of test(): the sum of the batch losses so far
    total_correct, \* total_correct of test()
    events,        \* what the last train() call did, in order: <<operation, batch>>
    evaluated,     \* the output of every sample the last test() call evaluated
    results,       \* the mapping the last test() call returned, None before
    returned,      \* the function that returned last, "train" or "test"; "none"
                   \* once the caller has used its result or made another call
    exception,     \* the exception raised and not handled, "none" if none
    entry_weights, \* weights as they were when the last call of train() or
                   \* test() began
    \* ---- the notebook's script ----
    pc,            \* the statement the script is at ("calls" when train() and
                   \* test() are called freely instead)
    epoch,         \* epoch of the training loop
    noise_idx,     \* the position in NOISE_LEVELS of the noise sweep
    train_calls,   \* how many train() calls the script has made
    swept          \* the noise levels of the loaders of the test() calls of the
                   \* noise sweep whose results were printed, in order

noiseVars == <<noise_level, white_value, heap, rng, noise, arg, ret, before, rng_before>>

modelVars == <<training, grad_enabled, weights, grad, boost_updates, rezeroed, opt_state>>

callVars == <<fn, step, loader, callback, batch_idx, output, loss, total_correct,
              events, evaluated, results, returned, exception, entry_weights>>

scriptVars == <<pc, epoch, noise_idx, train_calls, swept>>

vars == <<noiseVars, modelVars, callVars, scriptVars>>

(***************************************************************************)
(* Helpers                                                                 *)
(***************************************************************************)
Min(a, b) == IF a <= b THEN a ELSE b

\* Tensors of n pixels: functions from the positions 0 .. n-1.
TensorsOfSize(n) == [0 .. (n - 1) -> PixelValues]
Tensors == UNION {TensorsOfSize(n) : n \in 0 .. MaxPixels}

\* a.shape[0] of a flat view.
shape0(a) == Cardinality(DOMAIN a)

(***************************************************************************)
(* The global NumPy generator.  Its state is abstracted to its position in *)
(* its (periodic) output stream; a draw reads the stream at the position   *)
(* and advances it.                                                        *)
(***************************************************************************)
\* np.random.seed(s) in process r: the same state in every process.
np_random_seed_unseeded(s, r) == (s + r) % RngPeriod
np_random_seed(s, r) == s % RngPeriod

NextRng(s) == (s + 1) % RngPeriod

\* An integer in 0 .. max drawn at state s.
random_interval(s, max) == (s + (s \div 2)) % (max + 1)

\* The Fisher-Yates shuffle of arr (a function on 0 .. n-1): for i = n-1 down
\* to 1 draw j in 0 .. i and swap arr[i] and arr[j].  The result is the record
\* of the shuffled array and the generator state after the i draws.
RECURSIVE shuffle(_, _, _)
shuffle(arr, i, s) ==
    IF i < 1 THEN [arr |-> arr, rng |-> s]
    ELSE LET j == random_interval(s, i)
             swapped == [arr EXCEPT ![i] = arr[j], ![j] = arr[i]]
         IN shuffle(swapped, i - 1, NextRng(s))

\* np.random.permutation(n) at generator state s: arange(n), shuffled.
np_random_choice(n, s) ==
    [arr |-> [x \in 0 .. (n - 1) |-> random_interval(s + x, n - 1)],
     rng |-> IF n > 1 THEN NextRng(s) ELSE s]
np_random_permutation_extra_draw(n, s) ==
    LET r == shuffle([x \in 0 .. (n - 1) |-> x], n - 1, s)
    IN [arr |-> r.arr, rng |-> NextRng(r.rng)]
np_random_permutation(n, s) == shuffle([x \in 0 .. (n - 1) |-> x], n - 1, s)

(***************************************************************************)
(* RandomNoise                                                             *)
(***************************************************************************)
\* int(a.shape[0] * self.noise_level), the level being level / LevelDen.
num_noise_bits_ceil(n, level) == (n * level + LevelDen - 1) \div LevelDen
num_noise_bits(n, level) == (n * level) \div LevelDen

\* perm[0:k] as a sequence: a slice stops at the end of the array.
Slice(perm, k) == [x \in 1 .. Min(k, shape0(perm)) |-> perm[x - 1]]

\* The positions a sequence of positions holds.
Positions(sel) == {sel[x] : x \in DOMAIN sel}

\* a[noise] = self.white_value
AssignWhite(a, sel, white) ==
    [i \in DOMAIN a |-> IF i \in Positions(sel) THEN white ELSE a[i]]

\* RandomNoise.__init__(noise_level, white_value)
RandomNoise_init(level, white) ==
    /\ noise_level' = level
    /\ white_value' = white
    /\ arg' = 0
    /\ UNCHANGED <<heap, rng, noise, ret, before, rng_before>>
    /\ UNCHANGED <<modelVars, callVars, scriptVars>>

\* The tensor __call__ returns when given the tensor id.
ReturnedCopy(id) == IF id = 1 THEN 2 ELSE 1
Returned(id) == id

\* RandomNoise.__call__(image), image being tensor id, in every process.
RandomNoise_call(id) ==
    /\ LET draw(r) == np_random_permutation(shape0(heap[r][id]), rng[r])
           sel(r) == Slice(draw(r).arr,
                           num_noise_bits(shape0(heap[r][id]), noise_level))
       IN /\ noise' = [r \in Runs |-> sel(r)]
          /\ rng' = [r \in Runs |-> draw(r).rng]
          /\ heap' = [r \in Runs |->
                        [heap[r] EXCEPT ![id] =
                            AssignWhite(heap[r][id], sel(r), white_value)]]
    /\ before' = heap
    /\ rng_before' = rng
    /\ arg' = id
    /\ ret' = [r \in Runs |-> Returned(id)]
    /\ UNCHANGED <<noise_level, white_value>>
    /\ UNCHANGED <<modelVars, callVars, scriptVars>>

(***************************************************************************)
(* Loaders                                                                 *)
(***************************************************************************)
\* A DataLoader over a dataset of `size` samples in batches of `batch_size`;
\* `noise` holds the levels (in percent) of the RandomNoise transforms its
\* dataset applies to every image: none for the plain datasets, one for the
\* datasets of the noise sweep.
Loader(size, batch_size, levels) ==
    [size |-> size, batch_size |-> batch_size, noise |-> levels]

\* len(loader): the number of batches, the last one possibly smaller.
LoaderLen(l) == (l.size + l.batch_size - 1) \div l.batch_size

\* The samples of batch b (from 0) of the loader.
Batch(l, b) ==
    {x \in 1 .. l.size : b * l.batch_size < x /\ x <= (b + 1) * l.batch_size}

\* The loaders of the notebook.
first_loader == Loader(TrainSize, FirstBatchSize, <<>>)
train_loader == Loader(TrainSize, TrainBatchSize, <<>>)
test_loader == Loader(TestSize, TestBatchSize, <<>>)
noise_loader_clean(level) == Loader(TestSize, TestBatchSize, <<>>)
noise_loader(level) == Loader(TestSize, TestBatchSize, <<level>>)

\* The loaders train() and test() are given when they are called freely.
TrainLoaders ==
    {Loader(n, b, <<>>) : n \in 0 .. TrainSize, b \in 1 .. TrainBatchSize}
TestLoaders ==
    {Loader(n, b, <<>>) : n \in 0 .. TestSize, b \in 1 .. TestBatchSize}

(***************************************************************************)
(* The functions of nupic.torch.modules the notebook applies to the model  *)
(***************************************************************************)
\* rezero_weights, applied to every module: the positions the masks zeroed at
\* construction are set to zero again.
rezero_weights(w) == [p \in Params |-> IF p \in ZeroMask THEN 0 ELSE w[p]]

\* update_boost_strength, applied to every module: one more update of the
\* boost strength of the k-winners layers.
update_boost_strength(n) == n + 1

(***************************************************************************)
(* train()                                                                 *)
(***************************************************************************)
\* def post_batch(model): model.apply(rezero_weights)
post_batch_nothing(w) == w
post_batch(w) == rezero_weights(w)

\* The statement that follows a statement of the loop body of train().
TrainNextStepBackwardLast(s) ==
    CASE s = "zero_grad" -> "forward"
      [] s = "forward" -> "criterion"
      [] s = "criterion" -> "optimizer_step"
      [] s = "optimizer_step" -> "backward"
      [] s = "backward" -> "callback"
      [] s = "callback" -> "next_batch"
TrainNextStep(s) ==
    CASE s = "zero_grad" -> "forward"
      [] s = "forward" -> "criterion"
      [] s = "criterion" -> "backward"
      [] s = "backward" -> "optimizer_step"
      [] s = "optimizer_step" -> "callback"
      [] s = "callback" -> "next_batch"

\* Whether train() calls its callback: post_batch_callback is not None.
CallbackGiven(cb) == cb # None

\* The entry of train(model, loader, optimizer, criterion, post_batch_callback).
EnterTrain(l, cb) ==
    /\ fn' = "train"
    /\ step' = "model_train"
    /\ loader' = l
    /\ callback' = cb
    /\ batch_idx' = -1
    /\ events' = <<>>
    /\ output' = None
    /\ loss' = None
    /\ total_correct' = None
    /\ evaluated' = <<>>
    /\ results' = None
    /\ returned' = "none"
    /\ entry_weights' = weights
    /\ UNCHANGED exception

InTrain(s) == fn = "train" /\ step = s /\ exception = "none"

\* model.train()
TrainModelTrain ==
    /\ InTrain("model_train")
    /\ training' = TRUE
    /\ step' = "next_batch"
    /\ UNCHANGED <<grad_enabled, weights, grad, boost_updates, rezeroed, opt_state>>
    /\ UNCHANGED <<fn, loader, callback, batch_idx, output, loss, total_correct,
                   events, evaluated, results, returned, exception, entry_weights>>
    /\ UNCHANGED <<noiseVars, scriptVars>>

\* for batch_idx, (data, target) in enumerate(loader): the next batch, or the
\* end of the loop and of train().
TrainNextBatch ==
    /\ InTrain("next_batch")
    /\ IF batch_idx + 1 < LoaderLen(loader)
       THEN /\ batch_idx' = batch_idx + 1
            /\ step' = "zero_grad"
            /\ UNCHANGED <<fn, returned>>
       ELSE /\ fn' = "none"
            /\ step' = "none"
            /\ returned' = "train"
            /\ batch_idx' = -1
    /\ UNCHANGED <<loader, callback, output, loss, total_correct, events,
                   evaluated, results, exception, entry_weights>>
    /\ UNCHANGED <<noiseVars, modelVars, scriptVars>>

\* optimizer.zero_grad()
TrainZeroGrad ==
    /\ InTrain("zero_grad")
    /\ grad' = 0
    /\ events' = Append(events, <<"zero_grad", batch_idx>>)
    /\ step' = TrainNextStep(step)
    /\ UNCHANGED <<training, grad_enabled, weights, boost_updates, rezeroed, opt_state>>
    /\ UNCHANGED <<fn, loader, callback, batch_idx, output, loss, total_correct,
                   evaluated, results, returned, exception, entry_weights>>
    /\ UNCHANGED <<noiseVars, scriptVars>>

\* output = model(data)
TrainForward ==
    /\ InTrain("forward")
    /\ output' = <<"output", batch_idx>>
    /\ events' = Append(events, <<"forward", batch_idx>>)
    /\ step' = TrainNextStep(step)
    /\ UNCHANGED <<fn, loader, callback, batch_idx, loss, total_correct,
                   evaluated, results, returned, exception, entry_weights>>
    /\ UNCHANGED <<noiseVars, modelVars, scriptVars>>

\* loss = criterion(output, target)
TrainCriterion ==
    /\ InTrain("criterion")
    /\ loss' = <<"loss", batch_idx>>
    /\ events' = Append(events, <<"loss", batch_idx>>)
    /\ step' = TrainNextStep(step)
    /\ UNCHANGED <<fn, loader, callback, batch_idx, output, total_correct,
                   evaluated, results, returned, exception, entry_weights>>
    /\ UNCHANGED <<noiseVars, modelVars, scriptVars>>

\* loss.backward(): the gradients of the batch are added to .grad
TrainBackward ==
    /\ InTrain("backward")
    /\ grad' = grad + 1
    /\ output' = None
    /\ loss' = None
    /\ events' = Append(events, <<"backward", batch_idx>>)
    /\ step' = TrainNextStep(step)
    /\ UNCHANGED <<training, grad_enabled, weights, boost_updates, rezeroed, opt_state>>
    /\ UNCHANGED <<fn, loader, callback, batch_idx, total_correct,
                   evaluated, results, returned, exception, entry_weights>>
    /\ UNCHANGED <<noiseVars, scriptVars>>

\* optimizer.step(): every weight position may be written, those the masks
\* zeroed included.
TrainOptimizerStep ==
    /\ InTrain("optimizer_step")
    /\ \E w \in [Params -> WeightValues] : weights' = w
    /\ rezeroed' = {}
    /\ events' = Append(events, <<"optimizer_step", batch_idx>>)
    /\ step' = TrainNextStep(step)
    /\ opt_state' = "buffers"
    /\ UNCHANGED <<training, grad_enabled, grad, boost_updates>>
    /\ UNCHANGED <<fn, loader, callback, batch_idx, output, loss, total_correct,
                   evaluated, results, returned, exception, entry_weights>>
    /\ UNCHANGED <<noiseVars, scriptVars>>

\* if post_batch_callback is not None: post_batch_callback(model)
TrainCallback ==
    /\ InTrain("callback")
    /\ IF CallbackGiven(callback)
       THEN /\ weights' = post_batch(weights)
            /\ rezeroed' = {p \in Params : weights[p] # 0 /\ post_batch(weights)[p] = 0}
            /\ events' = Append(events, <<"callback", batch_idx>>)
       ELSE UNCHANGED <<weights, rezeroed, events>>
    /\ step' = TrainNextStep(step)
    /\ UNCHANGED <<training, grad_enabled, grad, boost_updates, opt_state>>
    /\ UNCHANGED <<fn, loader, callback, batch_idx, output, loss, total_correct,
                   evaluated, results, returned, exception, entry_weights>>
    /\ UNCHANGED <<noiseVars, scriptVars>>

\* The statements of the loop body that work on the batch; each can raise.
RaisingInTrain == {"forward", "criterion", "backward", "optimizer_step", "callback"}

\* What a statement that writes the weights can leave behind when it raises
\* part-way: every position holds its old value or the value the completed
\* statement would have given it.
PartlyWritten(w, done) ==
    {v \in [Params -> WeightValues] : \A p \in Params : v[p] \in {w[p], done[p]}}

\* A statement of the loop body raises. Nothing in train() handles it.
TrainRaise ==
    /\ fn = "train"
    /\ exception = "none"
    /\ step \in RaisingInTrain
    /\ step = "callback" => CallbackGiven(callback)
    /\ exception' = "Error"
    /\ CASE step = "optimizer_step" ->
               \E done \in [Params -> WeightValues] :
                   weights' \in PartlyWritten(weights, done)
         [] step = "callback" ->
               weights' \in PartlyWritten(weights, post_batch(weights))
         [] OTHER -> UNCHANGED weights
    /\ UNCHANGED <<training, grad_enabled, grad, boost_updates, rezeroed, opt_state>>
    /\ UNCHANGED <<fn, step, loader, callback, batch_idx, output, loss,
                   total_correct, events, evaluated, results, returned,
                   entry_weights>>
    /\ UNCHANGED <<noiseVars, scriptVars>>

TrainSteps ==
    \/ TrainRaise
    \/ TrainModelTrain
    \/ TrainNextBatch
    \/ TrainZeroGrad
    \/ TrainForward
    \/ TrainCriterion
    \/ TrainBackward
    \/ TrainOptimizerStep
    \/ TrainCallback

(***************************************************************************)
(* test()                                                                  *)
(***************************************************************************)
\* The sum of f over the finite set S.
RECURSIVE Sum(_, _)
Sum(f, S) ==
    IF S = {} THEN 0
    ELSE LET x == CHOOSE y \in S : TRUE IN f[x] + Sum(f, S \ {x})

\* criterion(output, target, reduction='sum').item()
criterion_sum(o) == Sum([x \in DOMAIN o |-> o[x].nll], DOMAIN o)

\* pred.eq(target.view_as(pred)).sum().item(), pred being output.argmax
correct_sum(o) == Cardinality({x \in DOMAIN o : o[x].pred = target(x)})

\* total_correct += n
AccumulateCorrectOverwrite(total, n) == n
AccumulateCorrect(total, n) == total + n

\* a / b, as the fraction.
Fraction(a, b) == [num |-> a, den |-> b]

\* The entry of test(model, loader, criterion).
EnterTest(l) ==
    /\ fn' = "test"
    /\ step' = "model_eval"
    /\ loader' = l
    /\ callback' = None
    /\ batch_idx' = -1
    /\ events' = <<>>
    /\ output' = None
    /\ loss' = None
    /\ total_correct' = None
    /\ evaluated' = <<>>
    /\ results' = None
    /\ returned' = "none"
    /\ entry_weights' = weights
    /\ UNCHANGED exception

InTest(s) == fn = "test" /\ step = s /\ exception = "none"

\* model.eval(); loss = 0; total_correct = 0
TestModelEvalMissing ==
    /\ InTest("model_eval")
    /\ loss' = 0
    /\ total_correct' = 0
    /\ step' = "no_grad"
    /\ UNCHANGED modelVars
    /\ UNCHANGED <<fn, loader, callback, batch_idx, output, events, evaluated,
                   results, returned, exception, entry_weights>>
    /\ UNCHANGED <<noiseVars, scriptVars>>
TestModelEval ==
    /\ InTest("model_eval")
    /\ training' = FALSE
    /\ loss' = 0
    /\ total_correct' = 0
    /\ step' = "no_grad"
    /\ UNCHANGED <<grad_enabled, weights, grad, boost_updates, rezeroed, opt_state>>
    /\ UNCHANGED <<fn, loader, callback, batch_idx, output, events, evaluated,
                   results, returned, exception, entry_weights>>
    /\ UNCHANGED <<noiseVars, scriptVars>>

\* with torch.no_grad():
TestNoGrad ==
    /\ InTest("no_grad")
    /\ grad_enabled' = FALSE
    /\ step' = "next_batch"
    /\ UNCHANGED <<training, weights, grad, boost_updates, rezeroed, opt_state>>
    /\ UNCHANGED <<fn, loader, callback, batch_idx, output, loss, total_correct,
                   events, evaluated, results, returned, exception, entry_weights>>
    /\ UNCHANGED <<noiseVars, scriptVars>>

\* for data, target in loader: the next batch, or the end of the loop and of
\* the no_grad block.
TestNextBatch ==
    /\ InTest("next_batch")
    /\ IF batch_idx + 1 < LoaderLen(loader)
       THEN /\ batch_idx' = batch_idx + 1
            /\ step' = "forward"
            /\ UNCHANGED grad_enabled
       ELSE /\ grad_enabled' = TRUE
            /\ step' = "return"
            /\ UNCHANGED batch_idx
    /\ UNCHANGED <<training, weights, grad, boost_updates, rezeroed, opt_state>>
    /\ UNCHANGED <<fn, loader, callback, output, loss, total_correct, events,
                   evaluated, results, returned, exception, entry_weights>>
    /\ UNCHANGED <<noiseVars, scriptVars>>

\* output = model(data)
TestForward ==
    /\ InTest("forward")
    /\ \E o \in [Batch(loader, batch_idx) -> Outputs] :
          /\ output' = o
          /\ evaluated' = [x \in DOMAIN evaluated \cup DOMAIN o |->
                              IF x \in DOMAIN o THEN o[x] ELSE evaluated[x]]
    /\ step' = "loss"
    /\ UNCHANGED <<fn, loader, callback, batch_idx, loss, total_correct, events,
                   results, returned, exception, entry_weights>>
    /\ UNCHANGED <<noiseVars, modelVars, scriptVars>>

\* loss += criterion(output, target, reduction='sum').item()
TestLossBackward ==
    /\ InTest("loss")
    /\ loss' = loss + criterion_sum(output)
    /\ grad' = grad + 1
    /\ step' = "correct"
    /\ UNCHANGED <<training, grad_enabled, weights, boost_updates, rezeroed, opt_state>>
    /\ UNCHANGED <<fn, loader, callback, batch_idx, output, total_correct, events,
                   evaluated, results, returned, exception, entry_weights>>
    /\ UNCHANGED <<noiseVars, scriptVars>>
TestLoss ==
    /\ InTest("loss")
    /\ loss' = loss + criterion_sum(output)
    /\ step' = "correct"
    /\ UNCHANGED <<fn, loader, callback, batch_idx, output, total_correct, events,
                   evaluated, results, returned, exception, entry_weights>>
    /\ UNCHANGED <<noiseVars, modelVars, scriptVars>>

\* pred = output.argmax(dim=1, keepdim=True)
\* total_correct += pred.eq(target.view_as(pred)).sum().item()
TestCorrect ==
    /\ InTest("correct")
    /\ total_correct' = AccumulateCorrect(total_correct, correct_sum(output))
    /\ output' = None
    /\ step' = "next_batch"
    /\ UNCHANGED <<fn, loader, callback, batch_idx, loss, events, evaluated,
                   results, returned, exception, entry_weights>>
    /\ UNCHANGED <<noiseVars, modelVars, scriptVars>>

\* return {"accuracy": total_correct / len(loader.dataset),
\*         "loss": loss / len(loader.dataset), "total_correct": total_correct}
\* An empty dataset makes the division raise.
TestReturn ==
    /\ InTest("return")
    /\ IF loader.size = 0
       THEN /\ exception' = "ZeroDivisionError"
            /\ UNCHANGED <<fn, step, results, returned, batch_idx, loss,
                           total_correct>>
       ELSE /\ results' = [accuracy |-> Fraction(total_correct, loader.size),
                           loss |-> Fraction(loss, loader.size),
                           total_correct |-> total_correct]
            /\ returned' = "test"
            /\ fn' = "none"
            /\ step' = "none"
            /\ batch_idx' = -1
            /\ loss' = None
            /\ total_correct' = None
            /\ UNCHANGED exception
    /\ UNCHANGED <<loader, callback, output, events, evaluated, entry_weights>>
    /\ UNCHANGED <<noiseVars, modelVars, scriptVars>>

\* The statements of the loop body that work on the batch; each can raise.
RaisingInTest == {"forward", "loss"}

\* A statement of the loop body raises. Nothing in test() handles it.
TestRaise ==
    /\ fn = "test"
    /\ exception = "none"
    /\ step \in RaisingInTest
    /\ exception' = "Error"
    /\ UNCHANGED <<fn, step, loader, callback, batch_idx, output, loss,
                   total_correct, events, evaluated, results, returned,
                   entry_weights>>
    /\ UNCHANGED <<noiseVars, modelVars, scriptVars>>

TestSteps ==
    \/ TestRaise
    \/ TestModelEval
    \/ TestNoGrad
    \/ TestNextBatch
    \/ TestForward
    \/ TestLoss
    \/ TestCorrect
    \/ TestReturn

(***************************************************************************)
(* An exception leaving train() or test()                                  *)
(***************************************************************************)
\* Neither function has a try statement: the exception leaves the function,
\* which ends there. Leaving the torch.no_grad() block switches gradient
\* tracking back on; the locals of the call are gone.
UnwindRollback ==
    /\ fn # "none"
    /\ exception # "none"
    /\ fn' = "none"
    /\ step' = "none"
    /\ grad_enabled' = TRUE
    /\ weights' = entry_weights
    /\ batch_idx' = -1
    /\ output' = None
    /\ loss' = None
    /\ total_correct' = None
    /\ UNCHANGED <<training, grad, boost_updates, rezeroed, opt_state>>
    /\ UNCHANGED <<loader, callback, events, evaluated, results, returned,
                   exception, entry_weights>>
    /\ UNCHANGED <<noiseVars, scriptVars>>
Unwind ==
    /\ fn # "none"
    /\ exception # "none"
    /\ fn' = "none"
    /\ step' = "none"
    /\ grad_enabled' = TRUE
    /\ batch_idx' = -1
    /\ output' = None
    /\ loss' = None
    /\ total_correct' = None
    /\ UNCHANGED <<training, weights, grad, boost_updates, rezeroed, opt_state>>
    /\ UNCHANGED <<loader, callback, events, evaluated, results, returned,
                   exception, entry_weights>>
    /\ UNCHANGED <<noiseVars, scriptVars>>

(***************************************************************************)
(* The notebook's script                                                   *)
(***************************************************************************)
AtCell(c) == fn = "none" /\ exception = "none" /\ pc = c

\* train(model=sparse_cnn, loader=first_loader, optimizer=sgd,
\*       criterion=F.nll_loss, post_batch_callback=post_batch)
FirstEpoch ==
    /\ AtCell("first_epoch")
    /\ EnterTrain(first_loader, "post_batch")
    /\ train_calls' = train_calls + 1
    /\ pc' = "first_boost"
    /\ UNCHANGED <<epoch, noise_idx, swept>>
    /\ UNCHANGED <<noiseVars, modelVars>>

\* sparse_cnn.apply(update_boost_strength)
FirstBoost ==
    /\ AtCell("first_boost")
    /\ boost_updates' = update_boost_strength(boost_updates)
    /\ pc' = "first_test"
    /\ UNCHANGED <<epoch, noise_idx, train_calls, swept>>
    /\ UNCHANGED <<training, grad_enabled, weights, grad, rezeroed, opt_state>>
    /\ UNCHANGED <<noiseVars, callVars>>

\* test(model=sparse_cnn, loader=test_loader, criterion=F.nll_loss)
FirstTest ==
    /\ AtCell("first_test")
    /\ EnterTest(test_loader)
    /\ pc' = "first_display"
    /\ UNCHANGED <<epoch, noise_idx, train_calls, swept>>
    /\ UNCHANGED <<noiseVars, modelVars>>

\* The notebook displays the value of the cell; nothing keeps it.
FirstDisplay ==
    /\ AtCell("first_display")
    /\ results' = None
    /\ evaluated' = <<>>
    /\ epoch' = 1
    /\ pc' = "loop"
    /\ UNCHANGED <<noise_idx, train_calls, swept>>
    /\ returned' = "none"
    /\ UNCHANGED <<fn, step, loader, callback, batch_idx, output, loss,
                   total_correct, events, exception, entry_weights>>
    /\ UNCHANGED <<noiseVars, modelVars>>

\* for epoch in range(1, EPOCHS):
\*     train(model=sparse_cnn, loader=train_loader, optimizer=sgd,
\*           criterion=F.nll_loss, post_batch_callback=post_batch)
LoopTrain ==
    /\ AtCell("loop")
    /\ epoch < EPOCHS
    /\ EnterTrain(train_loader, "post_batch")
    /\ train_calls' = train_calls + 1
    /\ pc' = "loop_boost"
    /\ UNCHANGED <<epoch, noise_idx, swept>>
    /\ UNCHANGED <<noiseVars, modelVars>>

\* The end of the training loop: the noise sweep follows.
LoopEnd ==
    /\ AtCell("loop")
    /\ ~(epoch < EPOCHS)
    /\ noise_idx' = 1
    /\ pc' = "sweep"
    /\ UNCHANGED <<epoch, train_calls, swept>>
    /\ UNCHANGED <<noiseVars, modelVars, callVars>>

\*     sparse_cnn.apply(update_boost_strength)
LoopBoostSkipped ==
    /\ AtCell("loop_boost")
    /\ pc' = "loop_test"
    /\ UNCHANGED <<epoch, noise_idx, train_calls, swept>>
    /\ UNCHANGED <<noiseVars, modelVars, callVars>>
LoopBoost ==
    /\ AtCell("loop_boost")
    /\ boost_updates' = update_boost_strength(boost_updates)
    /\ pc' = "loop_test"
    /\ UNCHANGED <<epoch, noise_idx, train_calls, swept>>
    /\ UNCHANGED <<training, grad_enabled, weights, grad, rezeroed, opt_state>>
    /\ UNCHANGED <<noiseVars, callVars>>

\*     results = test(model=sparse_cnn, loader=test_loader, criterion=F.nll_loss)
LoopTest ==
    /\ AtCell("loop_test")
    /\ EnterTest(test_loader)
    /\ pc' = "loop_print"
    /\ UNCHANGED <<epoch, noise_idx, train_calls, swept>>
    /\ UNCHANGED <<noiseVars, modelVars>>

\*     print(results); results is not read again before it is assigned again.
LoopPrint ==
    /\ AtCell("loop_print")
    /\ results' = None
    /\ evaluated' = <<>>
    /\ epoch' = epoch + 1
    /\ pc' = "loop"
    /\ UNCHANGED <<noise_idx, train_calls, swept>>
    /\ returned' = "none"
    /\ UNCHANGED <<fn, step, loader, callback, batch_idx, output, loss,
                   total_correct, events, exception, entry_weights>>
    /\ UNCHANGED <<noiseVars, modelVars>>

\* for noise in NOISE_LEVELS:
\*     noise_transform = ...; noise_dataset = ...; noise_loader = ...
\*     results = test(model=sparse_cnn, loader=noise_loader, criterion=F.nll_loss)
SweepTest ==
    /\ AtCell("sweep")
    /\ noise_idx <= Len(NOISE_LEVELS)
    /\ EnterTest(noise_loader(NOISE_LEVELS[noise_idx]))
    /\ pc' = "sweep_print"
    /\ UNCHANGED <<epoch, noise_idx, train_calls, swept>>
    /\ UNCHANGED <<noiseVars, modelVars>>

\* The end of the sweep and of the script.
SweepEnd ==
    /\ AtCell("sweep")
    /\ ~(noise_idx <= Len(NOISE_LEVELS))
    /\ pc' = "done"
    /\ UNCHANGED <<epoch, noise_idx, train_calls, swept>>
    /\ UNCHANGED <<noiseVars, modelVars, callVars>>

\*     print(noise, ":", results)
SweepPrint ==
    /\ AtCell("sweep_print")
    /\ results' = None
    /\ evaluated' = <<>>
    /\ noise_idx' = noise_idx + 1
    /\ swept' = swept \o loader.noise
    /\ pc' = "sweep"
    /\ UNCHANGED <<epoch, train_calls>>
    /\ returned' = "none"
    /\ UNCHANGED <<fn, step, loader, callback, batch_idx, output, loss,
                   total_correct, events, exception, entry_weights>>
    /\ UNCHANGED <<noiseVars, modelVars>>

ScriptSteps ==
    \/ FirstEpoch
    \/ FirstBoost
    \/ FirstTest
    \/ FirstDisplay
    \/ LoopTrain
    \/ LoopEnd
    \/ LoopBoost
    \/ LoopTest
    \/ LoopPrint
    \/ SweepTest
    \/ SweepEnd
    \/ SweepPrint

(***************************************************************************)
(* train() and test() called freely on one model                           *)
(***************************************************************************)
CallTrain(l, cb) ==
    /\ AtCell("calls")
    /\ EnterTrain(l, cb)
    /\ UNCHANGED <<noiseVars, modelVars, scriptVars>>

CallTest(l) ==
    /\ AtCell("calls")
    /\ EnterTest(l)
    /\ UNCHANGED <<noiseVars, modelVars, scriptVars>>

(***************************************************************************)
(* Initial states and specifications                                       *)
(***************************************************************************)
\* The transform as constructed with its defaults; no call yet.
NoiseIdle ==
    /\ noise_level = 0
    /\ white_value = "white"
    /\ noise = [r \in Runs |-> <<>>]
    /\ arg = 0
    /\ ret = [r \in Runs |-> 0]

\* No tensors are given to the transform.
NoiseUnused ==
    /\ NoiseIdle
    /\ heap = [r \in Runs |-> [id \in Ids |-> <<>>]]
    /\ before = heap
    /\ rng = [r \in Runs |-> 0]
    /\ rng_before = rng

\* The model as constructed: in training mode, the masked positions zero.
ModelConstructed ==
    /\ training = TRUE
    /\ grad_enabled = TRUE
    /\ weights \in {w \in [Params -> WeightValues] : \A p \in ZeroMask : w[p] = 0}
    /\ grad = 0
    /\ boost_updates = 0
    /\ rezeroed = {}
    /\ opt_state = "empty"

\* Neither train() nor test() has been called.
NoCall ==
    /\ fn = "none"
    /\ step = "none"
    /\ loader = Loader(0, 1, <<>>)
    /\ callback = None
    /\ batch_idx = -1
    /\ output = None
    /\ loss = None
    /\ total_correct = None
    /\ events = <<>>
    /\ evaluated = <<>>
    /\ results = None
    /\ returned = "none"
    /\ exception = "none"
    /\ entry_weights = weights

ScriptAt(c) ==
    /\ pc = c
    /\ epoch = 0
    /\ noise_idx = 0
    /\ train_calls = 0
    /\ swept = <<>>

InitNoise ==
    /\ NoiseIdle
    /\ \E h \in [Ids -> Tensors] : heap = [r \in Runs |-> h] /\ before = [r \in Runs |-> h]
    /\ \E s \in Seeds : /\ rng = [r \in Runs |-> np_random_seed(s, r)]
                        /\ rng_before = [r \in Runs |-> np_random_seed(s, r)]
    /\ ModelConstructed /\ weights = [p \in Params |-> 0]
    /\ NoCall
    /\ ScriptAt("noise")

NextNoise ==
    \/ \E level \in Levels, white \in PixelValues : RandomNoise_init(level, white)
    \/ \E id \in Ids : RandomNoise_call(id)

\* The RandomNoise transform in two processes.
SpecNoise == InitNoise /\ [][NextNoise]_vars

\* The notebook's script.
Init ==
    /\ NoiseUnused
    /\ ModelConstructed
    /\ NoCall
    /\ ScriptAt("first_epoch")

Next ==
    \/ ScriptSteps
    \/ TrainSteps
    \/ TestSteps
    \/ Unwind

Spec == Init /\ [][Next]_vars

\* train() and test() called in any order, with any loader and callback.
InitCalls ==
    /\ NoiseUnused
    /\ ModelConstructed
    /\ NoCall
    /\ ScriptAt("calls")

NextCalls ==
    \/ \E l \in TrainLoaders, cb \in {None, "post_batch"} : CallTrain(l, cb)
    \/ \E l \in TestLoaders : CallTest(l)
    \/ TrainSteps
    \/ TestSteps
    \/ Unwind

SpecCalls == InitCalls /\ [][NextCalls]_vars

(***************************************************************************)
(* Properties of RandomNoise, checked under SpecNoise.                     *)
(***************************************************************************)
\* floor(a / b) for a >= 0 and b > 0, by its definition.
FloorDiv(a, b) == CHOOSE q \in 0 .. a : q * b <= a /\ a < (q + 1) * b

\* floor(N * noise_level) for the image of the last call.
FloorNoise(r) == FloorDiv(shape0(before[r][arg]) * noise_level, LevelDen)

\* The positions of the image of the last call whose value the call changed.
Changed(r) == {i \in DOMAIN before[r][arg] : heap[r][arg][i] # before[r][arg][i]}

\* The positions of the image of the last call that held white_value before it.
WhiteBefore(r) == {i \in DOMAIN before[r][arg] : before[r][arg][i] = white_value}

\* A call with a noise level in [0, 1] has been made.
CalledInRange == arg # 0 /\ noise_level <= LevelDen

\* C1 as stated: one call changes exactly floor(N * noise_level) pixel values,
\* whatever the pixel values were before the call.
C1_ChangesExactlyFloor ==
    CalledInRange => \A r \in Runs : Cardinality(Changed(r)) = FloorNoise(r)

\* C1 as amended: one call changes exactly the selected positions that did not
\* already hold white_value, so at most floor(N * noise_level) pixel values, and
\* exactly floor(N * noise_level) when no pixel held white_value before the call.
C1_ChangesSelectedNotWhite ==
    CalledInRange =>
        \A r \in Runs :
            /\ Changed(r) = Positions(noise[r]) \ WhiteBefore(r)
            /\ Cardinality(Changed(r)) <= FloorNoise(r)
            /\ (WhiteBefore(r) = {} => Cardinality(Changed(r)) = FloorNoise(r))

\* C1 witness: a call on an image without white pixels changed one pixel of two.
C1_Witness ==
    /\ CalledInRange
    /\ shape0(before[1][arg]) = 2
    /\ WhiteBefore(1) = {}
    /\ Cardinality(Changed(1)) = 1

\* C2: a call selects exactly floor(N * noise_level) pairwise distinct positions
\* of the image, every selected position holds white_value after the call, level
\* 0 selects nothing and level 1 sets every pixel to white_value.
C2_SelectsDistinctAndWhitens ==
    CalledInRange =>
        \A r \in Runs :
            /\ Len(noise[r]) = FloorNoise(r)
            /\ \A x, y \in DOMAIN noise[r] : x # y => noise[r][x] # noise[r][y]
            /\ Positions(noise[r]) \subseteq DOMAIN before[r][arg]
            /\ \A i \in Positions(noise[r]) : heap[r][arg][i] = white_value
            /\ (noise_level = 0 => noise[r] = <<>>)
            /\ (noise_level = LevelDen =>
                    \A i \in DOMAIN heap[r][arg] : heap[r][arg][i] = white_value)

\* C2 witness: a call at a level strictly between 0 and 1 selected one of two
\* pixels, which was not white before.
C2_Witness ==
    /\ arg # 0
    /\ 0 < noise_level /\ noise_level < LevelDen
    /\ shape0(heap[1][arg]) = 2
    /\ Len(noise[1]) = 1
    /\ before[1][arg][noise[1][1]] # white_value
    /\ heap[1][arg][noise[1][1]] = white_value

\* C3: a call leaves every position it did not select with the value it had,
\* leaves the image's shape, noise_level and white_value unchanged, and returns
\* the image it was given.
C3_FrameOfCall ==
    [][arg' # 0 =>
        /\ noise_level' = noise_level
        /\ white_value' = white_value
        /\ \A r \in Runs :
              /\ DOMAIN heap'[r][arg'] = DOMAIN heap[r][arg']
              /\ \A i \in DOMAIN heap[r][arg'] \ Positions(noise'[r]) :
                    heap'[r][arg'][i] = heap[r][arg'][i]
              /\ ret'[r] = arg']_vars

\* C3 witness: a call returned its image, having whitened one pixel and left a
\* black pixel as it was.
C3_Witness ==
    /\ arg # 0
    /\ ret[1] = arg
    /\ Len(noise[1]) = 1
    /\ \E i \in DOMAIN heap[1][arg] :
          /\ i \notin Positions(noise[1])
          /\ heap[1][arg][i] = "black"
          /\ white_value = "white"
    /\ heap[1][arg] # before[1][arg]

\* The generator state s advanced by k draws.
RECURSIVE Advance(_, _)
Advance(s, k) == IF k <= 0 THEN s ELSE Advance(NextRng(s), k - 1)

\* C4 as stated: a call changes no state other than the pixels of the image given
\* to it; the state of the random number generator is not modified either.
C4_OnlyPixelsChange ==
    [][arg' # 0 =>
        /\ noise_level' = noise_level
        /\ white_value' = white_value
        /\ rng' = rng
        /\ \A r \in Runs : \A id \in Ids \ {arg'} : heap'[r][id] = heap[r][id]]_vars

\* C4 as amended: a call changes no state other than the pixels of the image
\* given to it and the state of the global NumPy generator, which the
\* permutation of N positions advances by its draws (none when N <= 1).
C4_OnlyPixelsAndRngChange ==
    [][arg' # 0 =>
        /\ noise_level' = noise_level
        /\ white_value' = white_value
        /\ \A r \in Runs :
              /\ rng'[r] = Advance(rng[r], shape0(heap[r][arg']) - 1)
              /\ \A id \in Ids \ {arg'} : heap'[r][id] = heap[r][id]]_vars

\* C4 witness: a call on an image of two pixels has moved the generator and left
\* the other tensor as it was.
C4_Witness ==
    /\ arg # 0
    /\ shape0(heap[1][arg]) = 2
    /\ rng[1] # rng_before[1]
    /\ \A id \in Ids \ {arg} : heap[1][id] = before[1][id] /\ shape0(heap[1][id]) > 0

PermutationsOf(n) ==
    {p \in [0 .. (n - 1) -> 0 .. (n - 1)] :
        \A x, y \in 0 .. (n - 1) : x # y => p[x] # p[y]}

\* The permutations of 0 .. n-1 under which a call at `level` overwrites pixel i.
Overwriting(n, level, i) ==
    {p \in PermutationsOf(n) : i \in Positions(Slice(p, num_noise_bits(n, level)))}

\* C6: every pixel of the image is set to white_value with probability
\* noise_level: of the equally likely permutations, the share that overwrites a
\* given pixel is noise_level.
C6_EachPixelWithProbabilityLevel ==
    CalledInRange =>
        \A r \in Runs : \A i \in DOMAIN heap[r][arg] :
            LET n == shape0(heap[r][arg])
            IN Cardinality(Overwriting(n, noise_level, i)) * LevelDen
                   = noise_level * Cardinality(PermutationsOf(n))

(***************************************************************************)
(* Properties of train() and test(), checked under SpecCalls, and of the   *)
(* script, checked under Spec.                                             *)
(***************************************************************************)
\* What train() does for batch b, in order, with and without a callback.
BatchEvents(b, given) ==
    <<<<"zero_grad", b>>, <<"forward", b>>, <<"loss", b>>, <<"backward", b>>,
      <<"optimizer_step", b>>>>
    \o (IF given THEN <<<<"callback", b>>>> ELSE <<>>)

\* What train() does for the batches 0 .. n-1 of a loader, in order.
RECURSIVE ExpectedEvents(_, _)
ExpectedEvents(n, given) ==
    IF n <= 0 THEN <<>>
    ELSE ExpectedEvents(n - 1, given) \o BatchEvents(n - 1, given)

IsPrefix(a, b) == Len(a) <= Len(b) /\ \A x \in 1 .. Len(a) : a[x] = b[x]

\* C7: train() handles the batches of the loader once each and in order; for
\* each batch it clears the gradients, runs the forward pass, the loss, the
\* backward pass, the optimizer step and then the callback, which is invoked
\* once per batch when given and never when it is None; it does not stop
\* before the loader is exhausted unless a statement raises, and has made
\* exactly len(loader) optimizer steps when it returns.
C7_TrainOrder ==
    /\ fn = "train" =>
          /\ IsPrefix(events, ExpectedEvents(LoaderLen(loader), callback # None))
          /\ exception = "none" => ENABLED TrainSteps
    /\ returned = "train" =>
          /\ events = ExpectedEvents(LoaderLen(loader), callback # None)
          /\ Cardinality({x \in 1 .. Len(events) : events[x][1] = "optimizer_step"})
                = LoaderLen(loader)

\* C7 witness: train() returned after two batches with a callback.
C7_Witness ==
    /\ returned = "train"
    /\ LoaderLen(loader) = 2
    /\ callback = "post_batch"
    /\ Len(events) = 12
    /\ events[6] = <<"callback", 0>>
    /\ events[8] = <<"forward", 1>>

\* C8: in the script, where post_batch is the callback of every train() call,
\* every position the masks zeroed at construction holds zero except between a
\* batch's optimizer step and its callback: after every callback, and so at
\* every forward pass of training and of evaluation. (A statement that raised
\* ends the script; no forward pass follows it.)
C8_MaskedWeightsZero ==
    \/ exception # "none"
    \/ fn = "train" /\ step = "callback"
    \/ \A p \in ZeroMask : weights[p] = 0

\* C8 witness: the callback of a batch has reset a masked position to which the
\* optimizer step had written a non-zero value, and the next forward pass is due.
C8_Witness ==
    /\ fn = "train"
    /\ step = "forward"
    /\ batch_idx >= 1
    /\ rezeroed # {}
    /\ \A p \in ZeroMask : weights[p] = 0
    /\ \E p \in Params : weights[p] # 0

\* C9: test() returns a mapping with the keys accuracy, loss and total_correct;
\* total_correct is the number of samples of the dataset whose predicted class is
\* their label, accuracy is total_correct / len(dataset), loss is the sum of the
\* samples' losses / len(dataset), and 0 <= total_correct <= len(dataset).
C9_TestResults ==
    returned = "test" =>
        /\ DOMAIN results = {"accuracy", "loss", "total_correct"}
        /\ DOMAIN evaluated = 1 .. loader.size
        /\ results.total_correct =
              Cardinality({x \in 1 .. loader.size : evaluated[x].pred = target(x)})
        /\ results.accuracy = [num |-> results.total_correct, den |-> loader.size]
        /\ results.loss =
              [num |-> Sum([x \in 1 .. loader.size |-> evaluated[x].nll],
                           1 .. loader.size),
               den |-> loader.size]
        /\ 0 <= results.total_correct
        /\ results.total_correct <= loader.size

\* C9 witness: test() returned for a dataset of three samples in batches of two
\* and one, with correct and wrong predictions in the first batch.
C9_Witness ==
    /\ returned = "test"
    /\ loader.size = 3
    /\ loader.batch_size = 2
    /\ results.total_correct = 2
    /\ evaluated[1].pred = target(1)
    /\ evaluated[2].pred # target(2)
    /\ results.loss.num = 2

\* C10: in the script the boost strength update runs once after every training
\* epoch, after the epoch's last batch and before the evaluation pass and the
\* next epoch: while an epoch runs, the updates number the epochs before it;
\* while an evaluation pass runs, they number the epochs run; and after the
\* training loop EPOCHS epochs and EPOCHS updates have happened.
C10_BoostOncePerEpoch ==
    /\ train_calls <= EPOCHS
    /\ boost_updates <= train_calls
    /\ train_calls <= boost_updates + 1
    /\ fn = "train" => boost_updates = train_calls - 1
    /\ fn = "test" => boost_updates = train_calls
    /\ pc \in {"sweep", "sweep_print", "done"} =>
          train_calls = EPOCHS /\ boost_updates = EPOCHS

\* C10 witness: the script has ended after EPOCHS epochs and EPOCHS updates.
C10_Witness ==
    /\ pc = "done"
    /\ train_calls = EPOCHS
    /\ boost_updates = EPOCHS

(***************************************************************************)
(* Properties of the noise sweep, checked under Spec.                      *)
(***************************************************************************)
\* The script is in the noise sweep.
InSweep == pc \in {"sweep", "sweep_print", "done"}

\* The first n elements of the sequence.
Take(seq, n) == [x \in 1 .. Min(n, Len(seq)) |-> seq[x]]

\* C11: the noise sweep begins only when all EPOCHS train() calls have
\* returned; it calls test() for the levels of NOISE_LEVELS in list order,
\* each time with a loader whose dataset applies RandomNoise with that level,
\* and once for each level by the time the script ends; and once the sweep has
\* begun no step runs train(), logs a training operation or changes the
\* weights, the gradients, the optimizer's state or the boost updates.
C11_SweepAfterTraining ==
    /\ [](InSweep =>
            /\ train_calls = EPOCHS
            /\ boost_updates = EPOCHS
            /\ fn # "train"
            /\ events = <<>>
            /\ noise_idx \in 1 .. (Len(NOISE_LEVELS) + 1)
            /\ swept = Take(NOISE_LEVELS, noise_idx - 1)
            /\ (fn = "test" \/ pc = "sweep_print") =>
                  loader = noise_loader(NOISE_LEVELS[noise_idx])
            /\ (pc = "done" /\ exception = "none") => swept = NOISE_LEVELS)
    /\ [][InSweep =>
              /\ InSweep'
              /\ weights' = weights
              /\ grad' = grad
              /\ opt_state' = opt_state
              /\ rezeroed' = rezeroed
              /\ boost_updates' = boost_updates
              /\ train_calls' = train_calls
              /\ fn' # "train"]_vars

\* C11 witness: the last level of the sweep has been evaluated and printed
\* after the levels before it, on the weights the last epoch left.
C11_Witness ==
    /\ pc = "done"
    /\ exception = "none"
    /\ train_calls = EPOCHS
    /\ swept = NOISE_LEVELS
    /\ Len(swept) >= 2
    /\ loader.noise = <<NOISE_LEVELS[Len(NOISE_LEVELS)]>>
    /\ weights = entry_weights

(***************************************************************************)
(* Properties of the calls, checked under SpecCalls.                       *)
(***************************************************************************)
\* C12: a test() call logs no backward pass, optimizer step or callback; no
\* step of it changes the weights, the gradients, the optimizer's state, the
\* boost updates or the positions last rezeroed, and the mode flag changes
\* only to evaluation; when it returns, the weights are those the call began
\* with, the model is in evaluation mode and gradient tracking is on again.
C12_TestChangesOnlyMode ==
    /\ [](fn = "test" => events = <<>> /\ weights = entry_weights)
    /\ [](returned = "test" =>
            /\ events = <<>>
            /\ weights = entry_weights
            /\ ~training
            /\ grad_enabled)
    /\ [][(fn = "test" \/ fn' = "test") =>
              /\ weights' = weights
              /\ grad' = grad
              /\ opt_state' = opt_state
              /\ boost_updates' = boost_updates
              /\ rezeroed' = rezeroed
              /\ training' = training \/ ~training']_vars

\* C12 witness: test() returned for a model that train() had left in training
\* mode with updated weights, an accumulated gradient and optimizer state.
C12_Witness ==
    /\ returned = "test"
    /\ loader.size >= 2
    /\ LoaderLen(loader) = 2
    /\ opt_state = "buffers"
    /\ grad = 1
    /\ \E p \in Params : weights[p] # 0
    /\ weights = entry_weights
    /\ ~training

\* C13: a statement of the loop body that raises logs nothing and, unless it is
\* itself a statement that writes the weights, leaves them alone; the only step
\* that follows is the exception leaving train() or test(), which executes no
\* further statement of the batch or of a later batch, changes neither the
\* weights nor the optimizer's state (what earlier batches wrote stays) and
\* returns nothing: no results mapping exists and no call has returned.
C13_ExceptionsPropagate ==
    /\ [](exception # "none" => results = None /\ returned = "none")
    /\ [][(exception = "none" /\ exception' # "none") =>
              /\ fn \in {"train", "test"}
              /\ events' = events
              /\ evaluated' = evaluated
              /\ opt_state' = opt_state
              /\ step \notin {"optimizer_step", "callback"} => weights' = weights]_vars
    /\ [][exception # "none" =>
              /\ fn # "none"
              /\ fn' = "none"
              /\ exception' = exception
              /\ events' = events
              /\ evaluated' = evaluated
              /\ weights' = weights
              /\ grad' = grad
              /\ opt_state' = opt_state
              /\ training' = training
              /\ results' = results
              /\ returned' = returned]_vars

\* C13 witness: the loss of the second of three batches raised in train(); the
\* exception has left train(), the third batch was not begun, and the weights
\* differ from those the call began with.
C13_Witness ==
    /\ exception = "Error"
    /\ fn = "none"
    /\ callback = "post_batch"
    /\ LoaderLen(loader) = 3
    /\ Len(events) = 8
    /\ events[6] = <<"callback", 0>>
    /\ events[8] = <<"forward", 1>>
    /\ weights # entry_weights
    /\ results = None

\* C14: whatever train() and test() calls were made before, train() is past
\* model.train() only with the model in training mode, so at each of its
\* forward passes, and test() is past model.eval() only with the model in
\* evaluation mode, so at each of its forward passes; the model is in
\* evaluation mode when test() has returned, and the mode goes back to
\* training only by the model.train() of a train() call, and to evaluation
\* only by the model.eval() of a test() call.
C14_ModeMatchesFunction ==
    /\ []((fn = "train" /\ step # "model_train") => training)
    /\ []((fn = "test" /\ step # "model_eval") => ~training)
    /\ [](returned = "test" => ~training)
    /\ [][(~training /\ training') => (fn = "train" /\ step = "model_train")]_vars
    /\ [][(training /\ ~training') => (fn = "test" /\ step = "model_eval")]_vars

\* C14 witness: after a train() call and a test() call, the model is still in
\* evaluation mode as the next train() call begins.
C14_Witness ==
    /\ fn = "train"
    /\ step = "model_train"
    /\ ~training
    /\ opt_state = "buffers"
    /\ LoaderLen(loader) >= 1

====
